---- MODULE Spec2Model ----
(***************************************************************************)
(* Model of get_submission_xmls/create_virtual_sample.py: the virtual      *)
(* sample pipeline (fetch, taxonomy check, attribute reconciliation,       *)
(* checklist selection, composition, transport) and the two-phase          *)
(* submit / release workflow on one output directory.                      *)
(*                                                                         *)
(* Representation.                                                         *)
(*  - A Python dict is a sequence of entries [tag, value, units] with      *)
(*    pairwise distinct tags, in insertion order.                          *)
(*  - Python's None is the value None below; ElementTree gives None as     *)
(*    the text of an empty element.                                        *)
(*  - A response text is a sequence of lexical tokens; the two regular     *)
(*    expressions of extract_sample_code_from_response are matched on      *)
(*    the tokens.  An accession "ERS<digits>" is the token sequence        *)
(*    <<ERS, d1, ..., dk>>; the result None of the extraction is NoCode.   *)
(***************************************************************************)
EXTENDS Integers, Sequences, FiniteSets, TLC

\* ---------------------------------------------------------------- bounds
MaxSamples == 2

MaxChunks == 3

MaxAttrs == 2

MaxMandatory == 2

MaxFields == 2

\* ------------------------------------------------------------- constants
None == "None"

DEFAULT_CHECKLIST == "ERC000011"

CHECKLIST_TAG == "ENA-CHECKLIST"

SENTINEL == "missing: synthetic construct"

WARNING_TEXT == "Using default checklist due to inconsistencies or missing checklist in input samples."

\* -------------------------------------------------------------- helpers
SeqsUpTo(S, n) == UNION {[1..k -> S] : k \in 0..n}

Range(s) == {s[k] : k \in 1..Len(s)}

Truthy(x) == x # None /\ x # ""

\* dict operations on the entry-sequence representation
Tags(d) == {d[k].tag : k \in 1..Len(d)}

Has(d, tag) == \E k \in 1..Len(d) : d[k].tag = tag

Get(d, tag) == LET k == CHOOSE j \in 1..Len(d) : d[j].tag = tag
               IN  <<d[k].value, d[k].units>>

Put(d, tag, value, units) ==
    IF Has(d, tag)
    THEN [k \in 1..Len(d) |-> IF d[k].tag = tag
                              THEN [tag |-> tag, value |-> value, units |-> units]
                              ELSE d[k]]
    ELSE Append(d, [tag |-> tag, value |-> value, units |-> units])

\* ------------------------------------------------ parse_sample_attributes
\* raw is the list of SAMPLE_ATTRIBUTE elements (tag, value, units text or
\* None when there is no UNITS element); a repeated tag overwrites.
RECURSIVE parse_from(_, _)
parse_from(raw, attributes) ==
    IF raw = <<>> THEN attributes
    ELSE parse_from(Tail(raw),
                    Put(attributes, Head(raw).tag, Head(raw).value, Head(raw).units))

parse_sample_attributes(raw) == parse_from(raw, <<>>)

\* ------------------------------------------------------ common attributes
\* main, "Find common attributes": iterate the first sample's tags in
\* order and keep those every sample has with an equal (value, units).
InAll(tag, first_attributes, all_attributes) ==
    \A n \in 1..Len(all_attributes) :
        /\ Has(all_attributes[n], tag)
        /\ Get(first_attributes, tag) = Get(all_attributes[n], tag)

InAllTagOnly(tag, first_attributes, all_attributes) ==
    \A n \in 1..Len(all_attributes) : Has(all_attributes[n], tag)

find_common_attributes_tag_only(all_attributes) ==
    IF all_attributes = <<>> THEN <<>>
    ELSE SelectSeq(all_attributes[1],
                   LAMBDA e : InAllTagOnly(e.tag, all_attributes[1], all_attributes))

find_common_attributes(all_attributes) ==
    IF all_attributes = <<>> THEN <<>>
    ELSE SelectSeq(all_attributes[1],
                   LAMBDA e : InAll(e.tag, all_attributes[1], all_attributes))

\* ------------------------------------------------------ checklist policy
\* main, "Collect checklists": the value of the ENA-CHECKLIST attribute of
\* a sample joins checklist_set when it is truthy.
checklist_value_of(attributes) ==
    IF Has(attributes, CHECKLIST_TAG) THEN Get(attributes, CHECKLIST_TAG)[1] ELSE None

collect_checklist_any(checklist_set, attributes) ==
    checklist_set \cup {checklist_value_of(attributes)}

collect_checklist(checklist_set, attributes) ==
    IF Truthy(checklist_value_of(attributes))
    THEN checklist_set \cup {checklist_value_of(attributes)}
    ELSE checklist_set

\* main, "Check for checklist inconsistencies": raises ValueError.
inconsistent_checklists(checklist_set, checklist) ==
    checklist_set # {} /\ Cardinality(checklist_set) > 1 /\ ~Truthy(checklist)

\* main, "Use provided checklist or the common checklist from attributes".
select_checklist_ignore_override(checklist, checklist_set) ==
    IF Cardinality(checklist_set) = 1
    THEN [final_checklist |-> CHOOSE c \in checklist_set : TRUE, warnings |-> <<>>]
    ELSE IF Truthy(checklist)
    THEN [final_checklist |-> checklist, warnings |-> <<>>]
    ELSE [final_checklist |-> DEFAULT_CHECKLIST, warnings |-> <<WARNING_TEXT>>]

select_checklist(checklist, checklist_set) ==
    IF Truthy(checklist)
    THEN [final_checklist |-> checklist, warnings |-> <<>>]
    ELSE IF Cardinality(checklist_set) = 1
    THEN [final_checklist |-> CHOOSE c \in checklist_set : TRUE, warnings |-> <<>>]
    ELSE [final_checklist |-> DEFAULT_CHECKLIST, warnings |-> <<WARNING_TEXT>>]

\* main, "Display warnings and switch to test mode if not forced".
effective_submit_no_downgrade(warnings, submit, force) == submit

effective_submit(warnings, submit, force) ==
    IF warnings # <<>> /\ submit /\ ~force THEN FALSE ELSE submit

\* ------------------------------------------------- create_virtual_sample
TITLE_PREFIX == "This sample is a virtual sample of assembled raw reads from multiple physical samples of genome and is composed of physical samples "

RECURSIVE join(_, _)
join(sep, strs) ==
    IF strs = <<>> THEN <<>>
    ELSE IF Len(strs) = 1 THEN <<strs[1]>>
    ELSE <<strs[1], sep>> \o join(sep, Tail(strs))

RECURSIVE dedup(_)
dedup(strs) ==
    IF strs = <<>> THEN <<>>
    ELSE <<Head(strs)>> \o dedup(SelectSeq(Tail(strs), LAMBDA x : x # Head(strs)))

title_text_dedup(sample_codes) == <<TITLE_PREFIX>> \o join(", ", dedup(sample_codes)) \o <<".">>

title_text(sample_codes) == <<TITLE_PREFIX>> \o join(", ", sample_codes) \o <<".">>

Attribute(tag, value, units) == [tag |-> tag, value |-> value, units |-> units]

\* "Adding checklist attribute"
checklist_elements(checklist) ==
    IF Truthy(checklist) THEN <<Attribute(CHECKLIST_TAG, checklist, None)>> ELSE <<>>

RECURSIVE common_elements_no_skip(_)
common_elements_no_skip(common_attributes) ==
    IF common_attributes = <<>> THEN <<>>
    ELSE LET e == Head(common_attributes)
         IN  <<Attribute(e.tag, e.value, IF Truthy(e.units) THEN e.units ELSE None)>>
             \o common_elements_no_skip(Tail(common_attributes))

\* "Adding common attributes": the reserved tag is skipped, UNITS is
\* emitted only for truthy units.
RECURSIVE common_elements(_)
common_elements(common_attributes) ==
    IF common_attributes = <<>> THEN <<>>
    ELSE LET e == Head(common_attributes)
         IN  (IF e.tag = CHECKLIST_TAG THEN <<>>
              ELSE <<Attribute(e.tag, e.value, IF Truthy(e.units) THEN e.units ELSE None)>>)
             \o common_elements(Tail(common_attributes))

\* "Add mandatory fields with default value if they are missing"
RECURSIVE mandatory_elements_always(_, _)
mandatory_elements_always(mandatory_fields, common_attributes) ==
    IF mandatory_fields = <<>> THEN <<>>
    ELSE <<Attribute(Head(mandatory_fields), SENTINEL, None)>>
         \o mandatory_elements_always(Tail(mandatory_fields), common_attributes)

RECURSIVE mandatory_elements(_, _)
mandatory_elements(mandatory_fields, common_attributes) ==
    IF mandatory_fields = <<>> THEN <<>>
    ELSE (IF ~Has(common_attributes, Head(mandatory_fields))
          THEN <<Attribute(Head(mandatory_fields), SENTINEL, None)>>
          ELSE <<>>)
         \o mandatory_elements(Tail(mandatory_fields), common_attributes)

create_virtual_sample_placeholders_first(common_attributes, sample_codes, common_taxon_id, common_scientific_name, alias, center, checklist, mandatory_fields) ==
    [alias           |-> alias,
     center_name     |-> IF Truthy(center) THEN center ELSE None,
     title           |-> title_text(sample_codes),
     taxon_id        |-> common_taxon_id,
     scientific_name |-> common_scientific_name,
     attributes      |-> checklist_elements(checklist)
                         \o mandatory_elements(mandatory_fields, common_attributes)
                         \o common_elements(common_attributes)]

create_virtual_sample(common_attributes, sample_codes, common_taxon_id, common_scientific_name, alias, center, checklist, mandatory_fields) ==
    [alias           |-> alias,
     center_name     |-> IF Truthy(center) THEN center ELSE None,
     title           |-> title_text(sample_codes),
     taxon_id        |-> common_taxon_id,
     scientific_name |-> common_scientific_name,
     attributes      |-> checklist_elements(checklist)
                         \o common_elements(common_attributes)
                         \o mandatory_elements(mandatory_fields, common_attributes)]

\* "Create a unique alias for the virtual sample if not provided"
virtual_sample_alias(alias, sample_codes) ==
    IF Truthy(alias) THEN <<alias>> ELSE <<"virtual_sample_">> \o join("_", sample_codes)

\* ------------------------------------- extract_sample_code_from_response
\* Tokens of a response text.  SUCCESS_OPEN is the literal
\* '<SAMPLE accession="', ERROR_OPEN the literal 'accession: "', QUOTE the
\* closing '"', ERS the literal 'ERS', a digit token one decimal digit.
SUCCESS_OPEN == "<SAMPLE accession=\""

ERROR_OPEN == "accession: \""

QUOTE == "\""

ERS == "ERS"

Digits == {"1", "2"}

JUNK == "x"

\* a carriage return, a line feed, and a byte that is not valid UTF-8
CR == "\r"

LF == "\n"

NON_UTF8 == "0xFF"

\* a character outside ASCII, in valid UTF-8
NON_ASCII == "e-acute"

NoCode == <<>>

\* length of the longest run of digit tokens of text that starts at p
RECURSIVE digit_run(_, _)
digit_run(text, p) ==
    IF p <= Len(text) /\ text[p] \in Digits THEN 1 + digit_run(text, p + 1) ELSE 0

\* the pattern  open (ERS\d+) "  matches text at position p
match_at(open, text, p) ==
    /\ p + 3 <= Len(text)
    /\ text[p] = open
    /\ text[p + 1] = ERS
    /\ digit_run(text, p + 2) >= 1
    /\ p + 2 + digit_run(text, p + 2) <= Len(text)
    /\ text[p + 2 + digit_run(text, p + 2)] = QUOTE

\* group(1) of the match at p
group1(text, p) == SubSeq(text, p + 1, p + 1 + digit_run(text, p + 2))

\* re.search: scan the start positions from the left, NoCode for no match
RECURSIVE re_search_from(_, _, _)
re_search_from(open, text, p) ==
    IF p > Len(text) THEN NoCode
    ELSE IF match_at(open, text, p) THEN group1(text, p)
    ELSE re_search_from(open, text, p + 1)

re_search(open, text) == re_search_from(open, text, 1)

extract_error_first(response) ==
    IF re_search(ERROR_OPEN, response) # NoCode THEN re_search(ERROR_OPEN, response)
    ELSE IF re_search(SUCCESS_OPEN, response) # NoCode THEN re_search(SUCCESS_OPEN, response)
    ELSE NoCode

extract_sample_code_from_response(response) ==
    IF re_search(SUCCESS_OPEN, response) # NoCode THEN re_search(SUCCESS_OPEN, response)
    ELSE IF re_search(ERROR_OPEN, response) # NoCode THEN re_search(ERROR_OPEN, response)
    ELSE NoCode

\* ------------------------------------------------------ create_release_xml
create_release_xml_untargeted(sample_code) ==
    [actions |-> <<"MODIFY", "RELEASE">>, target |-> NoCode]

create_release_xml(sample_code) == [actions |-> <<"MODIFY", "RELEASE">>, target |-> sample_code]

create_submission_xml == [actions |-> <<"ADD">>, target |-> NoCode]

\* ---------------------------------------------- mandatory_fields_and_units
\* A FIELD element of the checklist: its NAME, the text of its MANDATORY
\* element, whether it has a UNITS element, and the text of the UNIT of
\* that element (None without UNIT).  The loop over the fields appends the
\* names by marker and records the unit of each field that has UNITS.
Field(name, mandatory, has_units, unit) ==
    [name |-> name, mandatory |-> mandatory, has_units |-> has_units, unit |-> unit]

RECURSIVE names_not_optional(_, _)
names_not_optional(fields, marker) ==
    IF fields = <<>> THEN <<>>
    ELSE (IF Head(fields).mandatory # "optional" THEN <<Head(fields).name>> ELSE <<>>)
         \o names_not_optional(Tail(fields), marker)

RECURSIVE names_with_marker(_, _)
names_with_marker(fields, marker) ==
    IF fields = <<>> THEN <<>>
    ELSE (IF Head(fields).mandatory = marker THEN <<Head(fields).name>> ELSE <<>>)
         \o names_with_marker(Tail(fields), marker)

RECURSIVE units_from(_, _)
units_from(fields, fields_with_units) ==
    IF fields = <<>> THEN fields_with_units
    ELSE units_from(Tail(fields),
                    IF Head(fields).has_units
                    THEN Put(fields_with_units, Head(fields).name, Head(fields).unit, None)
                    ELSE fields_with_units)

mandatory_fields_and_units(fields) ==
    [mandatory_fields   |-> names_with_marker(fields, "mandatory"),
     fields_with_units  |-> units_from(fields, <<>>),
     recommended_fields |-> names_with_marker(fields, "recommended")]

\* ------------------------------------------------------------ fatal checks
\* read_credentials: exit(1) when the credentials file does not exist
credentials_missing(credentials_file_exists) == ~credentials_file_exists

\* main: "if not release and os.path.exists(output_dir)": sys.exit(1)
output_dir_conflict_never(release, exists) == FALSE

output_dir_conflict_release_only(release, exists) == release /\ exists

output_dir_conflict(release, exists) == ~release /\ exists

\* download_sample_xml: raise when the status code is not 200
download_failed_ignored(r) == FALSE

download_failed(r) == ~r.ok

\* documents that are written to <code>.xml and then fail: not XML at all
\* (line 105); no SAMPLE, no alias, no SAMPLE_NAME, no TAXON_ID, no
\* SCIENTIFIC_NAME (lines 258-266); no SAMPLE_ATTRIBUTES, an attribute
\* without TAG or without VALUE (lines 18-20)
UnparsableDocuments == {"not_xml"}

IncompleteRecords ==
    {"no_sample", "no_alias", "no_sample_name", "no_taxon_id", "no_scientific_name"}

IncompleteAttributes == {"no_attributes", "no_tag", "no_value"}

\* download_sample_xml, lines 103-104: the file is opened, which creates
\* it, and the text-mode write raises UnicodeEncodeError on a character the
\* locale encoding lacks
save_failed(r, codec) == r.non_ascii /\ codec = "ascii"

\* download_sample_xml, line 105: ET.fromstring raises ParseError
parse_failed(r) == r.document \in UnparsableDocuments

\* main, lines 258-266: AttributeError on the None that find() returns for
\* a missing SAMPLE, SAMPLE_NAME, TAXON_ID or SCIENTIFIC_NAME, KeyError on
\* a missing alias
record_incomplete(r) == r.document \in IncompleteRecords

\* parse_sample_attributes, lines 18-20: TypeError on a missing
\* SAMPLE_ATTRIBUTES, AttributeError on a missing TAG or VALUE
attributes_incomplete(r) == r.document \in IncompleteAttributes

\* main, "Extract and check taxon_id and scientific_name": the first
\* value is adopted while the common value is None, a later value that
\* differs from the adopted one raises ValueError.
adopt(common, value) == IF common = None THEN value ELSE common

mismatch_never(common, value) == FALSE

mismatch(common, value) == common # None /\ common # value

\* documents that mandatory_fields_and_units raises on: not XML (line
\* 185), no DESCRIPTOR or no NAME in it (lines 188-189), a FIELD without
\* NAME (line 193) or without MANDATORY (line 201)
UnusableChecklists == {"not_xml", "no_descriptor", "no_field_name", "no_mandatory"}

\* mandatory_fields_and_units: exit(1) on a request exception
lookup_failed(result) == ~result.ok

\* mandatory_fields_and_units, lines 185-201: ParseError, or AttributeError
\* on the None that find() returns for a missing element
checklist_unusable(result) == result.ok /\ result.document \in UnusableChecklists

\* main, release: "if not sample_code: raise ValueError"
missing_sample_code_never(sample_code) == FALSE

missing_sample_code(sample_code) == sample_code = NoCode

\* ------------------------------------------------------- input domains
\* the sample codes of a submit run: pairwise distinct, in a fixed order
CodeList == <<"ERS101", "ERS102", "ERS103", "ERS104", "ERS105">>

SampleCodeLists == {SubSeq(CodeList, 1, n) : n \in 1..MaxSamples}

Overrides == {None, "ERC000053"}

\* SAMPLE_ATTRIBUTES lists of the fetched records of a run
SampleAttributes ==
    { <<Attribute(CHECKLIST_TAG, "ERC000053", None), Attribute("sex", "female", None)>>,
      <<Attribute("sex", "female", None), Attribute(CHECKLIST_TAG, "ERC000043", None)>>,
      <<Attribute(CHECKLIST_TAG, None, None), Attribute("sex", "male", None)>>,
      <<Attribute("sex", "female", None)>> }

\* a scientific name with a character outside ASCII: the multiplication
\* sign of a hybrid
HYBRID_NAME == "Mentha U+00D7 piperita"

NonAsciiStrings == {HYBRID_NAME}

\* What requests.get and the document it returns can be.  ok: the status
\* code is 200.  non_ascii: response.text holds a character outside ASCII
\* (a character written as a reference such as &#215; is ASCII in the
\* text and not in the parsed value).  document: "record" is a usable
\* sample record; the others are what lines 105, 258-266 and 18-20 can
\* fail on.
Download(document, non_ascii, taxon_id, scientific_name, raw) ==
    [ok |-> TRUE, document |-> document, non_ascii |-> non_ascii, taxon_id |-> taxon_id,
     scientific_name |-> scientific_name, raw |-> raw]

\* the status code is not 200 (line 107); an exception raised by
\* requests.get (line 98) ends the run in the same way
FailedDownload ==
    [ok |-> FALSE, document |-> "none", non_ascii |-> FALSE, taxon_id |-> None,
     scientific_name |-> None, raw |-> <<>>]

\* the TAXON_ID and SCIENTIFIC_NAME of a record: two species, a name
\* that does not go with the taxon, and an empty element of either kind
Taxonomies ==
    {<<"9606", "Homo sapiens">>, <<"10090", "Mus musculus">>, <<"9606", "Mus musculus">>,
     <<None, "Homo sapiens">>, <<"9606", None>>}

BaseAttributes == <<Attribute(CHECKLIST_TAG, "ERC000053", None), Attribute("sex", "female", None)>>

Downloads ==
    {FailedDownload} \cup
    {Download("record", FALSE, t[1], t[2], BaseAttributes) : t \in Taxonomies} \cup
    {Download("record", FALSE, "9606", "Homo sapiens", raw) : raw \in SampleAttributes} \cup
    {Download("record", n, "34256", HYBRID_NAME, BaseAttributes) : n \in BOOLEAN} \cup
    {Download(d, FALSE, "9606", "Homo sapiens", BaseAttributes) :
        d \in UnparsableDocuments \cup IncompleteRecords \cup IncompleteAttributes}

\* results of the checklist lookup: a request exception, a document that
\* the function fails on, or the FIELD elements of a checklist
FailedLookup == [ok |-> FALSE, document |-> "none", fields |-> <<>>]

Lookups ==
    {FailedLookup} \cup
    [ok : {TRUE}, document : UnusableChecklists, fields : {<<>>}] \cup
    [ok : {TRUE}, document : {"checklist"},
     fields : { <<>>,
                <<Field("sex", "mandatory", FALSE, None),
                  Field("depth", "recommended", TRUE, "m"),
                  Field("collection date", "mandatory", FALSE, None)>> }]

\* results of running curl: CalledProcessError, or the text on stdout
\* curl exits non-zero: CalledProcessError with the bytes of its stderr
CurlError == [ok |-> FALSE, text |-> <<>>, stderr |-> <<JUNK>>]

CurlErrorNonUtf8 == [ok |-> FALSE, text |-> <<>>, stderr |-> <<JUNK, NON_UTF8>>]

ResponseTexts ==
    { <<>>,
      <<JUNK>>,
      <<SUCCESS_OPEN, ERS, "1", QUOTE>>,
      <<ERROR_OPEN, ERS, "2", QUOTE>>,
      <<ERROR_OPEN, ERS, "2", QUOTE, SUCCESS_OPEN, ERS, "1", QUOTE>>,
      <<JUNK, CR, SUCCESS_OPEN, ERS, "1", QUOTE, CR, LF>>,
      <<NON_UTF8, SUCCESS_OPEN, ERS, "1", QUOTE>>,
      <<NON_ASCII, SUCCESS_OPEN, ERS, "1", QUOTE>> }

CurlResults ==
    {CurlError, CurlErrorNonUtf8} \cup [ok : {TRUE}, text : ResponseTexts, stderr : {<<>>}]

\* the encodings the interpreter may run with: of sys.stdout, and the
\* locale encoding that open() uses in text mode
Encodings == {"utf-8", "ascii"}

Environments == [stdout : Encodings, file : Encodings]

SubmitArgs ==
    [sample_codes : SampleCodeLists, submit : BOOLEAN,
     release : {FALSE}, checklist : Overrides, alias : {None}, center : {None},
     force : BOOLEAN]

ReleaseArgs ==
    [sample_codes : {<<>>}, submit : BOOLEAN, release : {TRUE}, checklist : {None},
     alias : {None}, center : {None}, force : BOOLEAN]

\* ---------------------------------------------------------------- state
VARIABLES
    output_dir,            \* the output directory exists
    submission_response,   \* the file submission_response.xml: [exists, text]
    files,                 \* the other files of the output directory
    pc,                    \* position of the current invocation of main
    args,                  \* its arguments
    encoding,              \* the locale encoding of its interpreter, used by open()
    submit,                \* its local submit flag (may be switched to test)
    i,                     \* number of sample codes the loop has processed
    common_taxon_id,
    common_scientific_name,
    all_attributes,
    checklist_set,
    warnings,
    common_attributes,
    final_checklist,
    checklist_xml,         \* the FIELD elements of the checklist looked up
    mandatory_fields,
    fields_with_units,
    recommended_fields,
    virtual_sample,
    response,              \* [ok, text]: the receipt read / returned
    sample_code,
    fetched,               \* history: the records downloaded in this run
    fatal,                 \* history: fatal conditions met in this run
    error,                 \* history: [kind, sample] of the abort
    written,               \* history: files written in this run
    transported,           \* history: requests handed to curl in this run
    received,              \* history: result of each of those requests
    prev,                  \* history: summary of the preceding completed run
    receipts               \* history: what the transports on the directory returned

dirVars == <<output_dir, submission_response, files>>

lookupVars == <<checklist_xml, fields_with_units, recommended_fields>>

localVars == <<submit, i, common_taxon_id, common_scientific_name, all_attributes,
               checklist_set, warnings, common_attributes, final_checklist,
               mandatory_fields, lookupVars, virtual_sample, response, sample_code>>

historyVars == <<fetched, fatal, error, written, transported, received, prev, receipts>>

vars == <<dirVars, pc, args, encoding, localVars, historyVars>>

NoFile == [exists |-> FALSE, text |-> <<>>]

NoResponse == [ok |-> FALSE, text |-> <<>>]

NoRecord == [alias |-> <<>>, center_name |-> None, title |-> <<>>, taxon_id |-> None,
             scientific_name |-> None, attributes |-> <<>>]

NoError == [kind |-> "none", sample |-> None]

NoArgs == [sample_codes |-> <<>>, submit |-> FALSE, release |-> FALSE, checklist |-> None,
           alias |-> None, center |-> None, force |-> FALSE]

\* no transport has returned a response on the directory
NoReceipts == [submit |-> [ok |-> FALSE, text |-> <<>>],
               latest |-> [phase |-> "none", text |-> <<>>]]

NoPrev == [valid |-> FALSE, args |-> NoArgs, transported |-> <<>>, sample_code |-> NoCode]

\* the locals of main at its entry
EnterMain(a) ==
    /\ args' = a
    /\ submit' = a.submit
    /\ i' = 0
    /\ common_taxon_id' = None
    /\ common_scientific_name' = None
    /\ all_attributes' = <<>>
    /\ checklist_set' = {}
    /\ warnings' = <<>>
    /\ common_attributes' = <<>>
    /\ final_checklist' = None
    /\ checklist_xml' = <<>>
    /\ mandatory_fields' = <<>>
    /\ fields_with_units' = <<>>
    /\ recommended_fields' = <<>>
    /\ virtual_sample' = NoRecord
    /\ response' = NoResponse
    /\ sample_code' = NoCode
    /\ fetched' = <<>>
    /\ fatal' = {}
    /\ error' = NoError
    /\ written' = {}
    /\ transported' = <<>>
    /\ received' = <<>>

Init ==
    /\ output_dir = FALSE
    /\ submission_response = NoFile
    /\ files = {}
    /\ pc = "idle"
    /\ args = NoArgs
    /\ encoding = "utf-8"
    /\ submit = FALSE
    /\ i = 0
    /\ common_taxon_id = None
    /\ common_scientific_name = None
    /\ all_attributes = <<>>
    /\ checklist_set = {}
    /\ warnings = <<>>
    /\ common_attributes = <<>>
    /\ final_checklist = None
    /\ checklist_xml = <<>>
    /\ mandatory_fields = <<>>
    /\ fields_with_units = <<>>
    /\ recommended_fields = <<>>
    /\ virtual_sample = NoRecord
    /\ response = NoResponse
    /\ sample_code = NoCode
    /\ fetched = <<>>
    /\ fatal = {}
    /\ error = NoError
    /\ written = {}
    /\ transported = <<>>
    /\ received = <<>>
    /\ prev = NoPrev
    /\ receipts = NoReceipts

Abort(kind, sample) ==
    /\ pc' = "aborted"
    /\ error' = [kind |-> kind, sample |-> sample]

\* ------------------------------------------------------------- __main__
\* The operator starts main: a submit run with at least one sample code,
\* or a release run.  The preceding run, when it completed, is summarised
\* in prev.
Invoke ==
    /\ pc \in {"idle", "done", "aborted"}
    /\ \E a \in SubmitArgs \cup ReleaseArgs : EnterMain(a)
    /\ encoding' \in Encodings
    /\ pc' = "start"
    /\ prev' = IF pc = "done"
               THEN [valid |-> TRUE, args |-> args, transported |-> transported,
                     sample_code |-> sample_code]
               ELSE NoPrev
    /\ UNCHANGED <<dirVars, receipts>>

\* main, lines 214-221: credentials, the output directory check, makedirs
Start ==
    /\ pc = "start"
    /\ \E credentials_file_exists \in BOOLEAN :
         IF credentials_missing(credentials_file_exists)
         THEN /\ Abort("credentials", None)
              /\ fatal' = fatal \cup {"credentials"}
              /\ UNCHANGED output_dir
         ELSE IF output_dir_conflict(args.release, output_dir)
         THEN /\ Abort("output_dir_exists", None)
              /\ fatal' = fatal \cup {"output_dir_exists"}
              /\ UNCHANGED output_dir
         ELSE /\ pc' = IF args.release THEN "release" ELSE "fetch"
              /\ output_dir' = TRUE
              /\ UNCHANGED <<error, fatal>>
    /\ UNCHANGED <<submission_response, files, args, encoding, localVars, fetched, written,
                   transported, received, prev, receipts>>

\* main, lines 255-285: one iteration of "for sample_code in sample_codes".
\* The download writes <code>.xml before it parses the document; the
\* taxonomy is read and checked before the attributes are parsed.
Fetch ==
    /\ pc = "fetch"
    /\ i < Len(args.sample_codes)
    /\ \E r \in Downloads :
         LET code       == args.sample_codes[i + 1]
             attributes == parse_sample_attributes(r.raw)
             unusable   == parse_failed(r) \/ record_incomplete(r) \/ attributes_incomplete(r)
         IN
         /\ fatal' = IF download_failed(r) \/ save_failed(r, encoding) \/ unusable
                     THEN fatal \cup {"download"} ELSE fatal
         /\ IF download_failed(r)
            THEN /\ Abort("download", code)
                 /\ UNCHANGED <<files, written, fetched, i, common_taxon_id,
                                common_scientific_name, all_attributes, checklist_set>>
            ELSE /\ files' = files \cup {code}
                 /\ written' = written \cup {code}
                 /\ IF save_failed(r, encoding) \/ parse_failed(r) \/ record_incomplete(r)
                    THEN /\ Abort(IF save_failed(r, encoding) THEN "sample_encode"
                                  ELSE IF parse_failed(r) THEN "sample_parse"
                                  ELSE "sample_record", code)
                         /\ UNCHANGED <<fetched, i, common_taxon_id, common_scientific_name,
                                        all_attributes, checklist_set>>
                    ELSE /\ fetched' = Append(fetched, [taxon_id |-> r.taxon_id,
                                                        scientific_name |-> r.scientific_name])
                         /\ IF mismatch(common_taxon_id, r.taxon_id)
                            THEN /\ Abort("taxon_id", code)
                                 /\ UNCHANGED <<i, common_taxon_id, common_scientific_name,
                                                all_attributes, checklist_set>>
                            ELSE /\ common_taxon_id' = adopt(common_taxon_id, r.taxon_id)
                                 /\ IF mismatch(common_scientific_name, r.scientific_name)
                                    THEN /\ Abort("scientific_name", code)
                                         /\ UNCHANGED <<i, common_scientific_name,
                                                        all_attributes, checklist_set>>
                                    ELSE /\ common_scientific_name' =
                                                adopt(common_scientific_name, r.scientific_name)
                                         /\ IF attributes_incomplete(r)
                                            THEN /\ Abort("sample_attributes", code)
                                                 /\ UNCHANGED <<i, all_attributes, checklist_set>>
                                            ELSE /\ all_attributes' = Append(all_attributes, attributes)
                                                 /\ checklist_set' =
                                                        collect_checklist(checklist_set, attributes)
                                                 /\ i' = i + 1
                                                 /\ UNCHANGED <<pc, error>>
    /\ UNCHANGED <<output_dir, submission_response, args, encoding, submit, warnings,
                   common_attributes, final_checklist, mandatory_fields, lookupVars, virtual_sample,
                   response, sample_code, transported, received, prev, receipts>>

\* main, lines 287-306: the inconsistency check, the common attributes and
\* the checklist selection, once the loop has processed every sample code
Reconcile ==
    /\ pc = "fetch"
    /\ i = Len(args.sample_codes)
    /\ IF inconsistent_checklists(checklist_set, args.checklist)
       THEN /\ Abort("inconsistent_checklists", None)
            /\ fatal' = fatal \cup {"inconsistent_checklists"}
            /\ UNCHANGED <<common_attributes, final_checklist, warnings, checklist_set>>
       ELSE LET selected == select_checklist(args.checklist, checklist_set)
            IN  /\ common_attributes' = find_common_attributes(all_attributes)
                /\ final_checklist' = selected.final_checklist
                /\ warnings' = selected.warnings
                \* checklist_set.pop() empties a one-element set
                /\ checklist_set' = IF ~Truthy(args.checklist) /\ Cardinality(checklist_set) = 1
                                    THEN {} ELSE checklist_set
                /\ pc' = "lookup"
                /\ UNCHANGED <<error, fatal>>
    /\ UNCHANGED <<dirVars, args, encoding, submit, i, common_taxon_id, common_scientific_name,
                   all_attributes, mandatory_fields, lookupVars, virtual_sample, response, sample_code,
                   fetched, written, transported, received, prev, receipts>>

\* main, line 309: mandatory_fields_and_units(final_checklist); exit(1) on
\* a request exception, an uncaught exception on an unusable document
Lookup ==
    /\ pc = "lookup"
    /\ \E result \in Lookups :
         IF lookup_failed(result) \/ checklist_unusable(result)
         THEN /\ Abort(IF lookup_failed(result) THEN "checklist_lookup"
                       ELSE "checklist_parse", None)
              /\ fatal' = fatal \cup {"checklist_lookup"}
              /\ UNCHANGED <<mandatory_fields, lookupVars>>
         ELSE /\ checklist_xml' = result.fields
              /\ mandatory_fields' = mandatory_fields_and_units(result.fields).mandatory_fields
              /\ fields_with_units' = mandatory_fields_and_units(result.fields).fields_with_units
              /\ recommended_fields' = mandatory_fields_and_units(result.fields).recommended_fields
              /\ pc' = "compose"
              /\ UNCHANGED <<error, fatal>>
    /\ UNCHANGED <<dirVars, args, encoding, submit, i, common_taxon_id, common_scientific_name,
                   all_attributes, checklist_set, warnings, common_attributes,
                   final_checklist, virtual_sample, response, sample_code,
                   fetched, written, transported, received, prev, receipts>>

\* the strings that prettify_xml puts into the text of a record
record_strings(sample) ==
    Range(sample.alias) \cup Range(sample.title)
    \cup {sample.center_name, sample.taxon_id, sample.scientific_name}
    \cup UNION {{a.tag, a.value, a.units} : a \in Range(sample.attributes)}

\* main, lines 329-330: the file is opened, which creates it, and the
\* text-mode write raises UnicodeEncodeError on a character the locale
\* encoding lacks
record_write_failed(sample, codec) ==
    codec = "ascii" /\ record_strings(sample) \cap NonAsciiStrings # {}

\* main, lines 311-338: the alias, the switch to test mode, the record,
\* and the files virtual_sample.xml and submission.xml; when the write of
\* the record fails virtual_sample.xml is left empty, submission.xml is
\* not written and the run ends
Compose ==
    /\ pc = "compose"
    /\ submit' = effective_submit(warnings, submit, args.force)
    /\ LET sample == create_virtual_sample(common_attributes, args.sample_codes,
                                           common_taxon_id, common_scientific_name,
                                           virtual_sample_alias(args.alias, args.sample_codes),
                                           args.center, final_checklist, mandatory_fields)
       IN  /\ virtual_sample' = sample
           /\ IF record_write_failed(sample, encoding)
              THEN /\ files' = files \cup {"virtual_sample.xml"}
                   /\ written' = written \cup {"virtual_sample.xml"}
                   /\ Abort("record_encode", None)
              ELSE /\ files' = files \cup {"virtual_sample.xml", "submission.xml"}
                   /\ written' = written \cup {"virtual_sample.xml", "submission.xml"}
                   /\ pc' = "submit"
                   /\ UNCHANGED error
    /\ UNCHANGED <<output_dir, submission_response, args, encoding, i, common_taxon_id,
                   common_scientific_name, all_attributes, checklist_set, warnings,
                   common_attributes, final_checklist, mandatory_fields, lookupVars, response,
                   sample_code, fetched, fatal, transported, received, prev, receipts>>

\* submit_to_ebi: the request handed to curl, and what it does with the
\* result: the text on stdout is written to submission_response.xml and
\* returned; on CalledProcessError nothing is written and None is returned
Request(submission, samples, production) ==
    [submission |-> submission, samples |-> samples, production |-> production]

\* the decodes of submit_to_ebi: result.stdout.decode('utf-8') at line 138
\* when curl exits 0, e.stderr.decode('utf-8') at line 149 when it does
\* not; neither UnicodeDecodeError is caught
decode_failed(result) ==
    IF result.ok THEN NON_UTF8 \in Range(result.text)
    ELSE NON_UTF8 \in Range(result.stderr)

\* a text with a character the encoding cannot represent:
\* UnicodeEncodeError on print (line 138) and on write (line 143),
\* UnicodeDecodeError on read (line 227)
encode_failed(text, codec) == codec = "ascii" /\ NON_ASCII \in Range(text)

\* line 138: the response is decoded and printed
print_failed(result, env) ==
    decode_failed(result) \/ (result.ok /\ encode_failed(result.text, env.stdout))

\* lines 142-143: the file is opened, which empties it, and the write fails
write_failed(result, env) ==
    result.ok /\ ~print_failed(result, env) /\ encode_failed(result.text, env.file)

\* an exception leaves submit_to_ebi
raised(result, env) == print_failed(result, env) \/ write_failed(result, env)

\* the response was written to submission_response.xml
persisted(result, env) == result.ok /\ ~raised(result, env)

\* open(path, 'r').read(), line 227: text mode translates CR LF and a lone
\* CR to LF
RECURSIVE read_text(_)
read_text(text) ==
    IF text = <<>> THEN <<>>
    ELSE IF Head(text) = CR
    THEN <<LF>> \o read_text(IF Len(text) >= 2 /\ text[2] = LF
                             THEN SubSeq(text, 3, Len(text))
                             ELSE Tail(text))
    ELSE <<Head(text)>> \o read_text(Tail(text))

Returned(result) ==
    [submit |-> IF args.release THEN receipts.submit
                ELSE [ok |-> result.ok, text |-> result.text],
     latest |-> [phase |-> IF args.release THEN "release" ELSE "submit",
                 text  |-> result.text]]

\* curl is run once; when it exits 0 its output is decoded and printed
\* (line 138) and then written to submission_response.xml (lines 141-143)
submit_to_ebi(submission, samples, production, result, env) ==
    /\ transported' = Append(transported, Request(submission, samples, production))
    /\ received' = Append(received, result)
    /\ receipts' = IF persisted(result, env) THEN Returned(result) ELSE receipts
    /\ IF persisted(result, env)
       THEN /\ submission_response' = [exists |-> TRUE, text |-> result.text]
            /\ written' = written \cup {"submission_response.xml"}
       ELSE IF write_failed(result, env)
       THEN /\ submission_response' = [exists |-> TRUE, text |-> <<>>]
            /\ written' = written \cup {"submission_response.xml"}
       ELSE UNCHANGED <<submission_response, written>>

\* the exception that leaves submit_to_ebi ends main
transport_error(result) == IF decode_failed(result) THEN "decode" ELSE "encode"

\* main, lines 340-348: the submission and the interpretation of the receipt
Submit ==
    /\ pc = "submit"
    /\ \E result \in CurlResults, env \in {e \in Environments : e.file = encoding} :
         /\ submit_to_ebi(create_submission_xml, "virtual_sample.xml", submit, result, env)
         /\ IF raised(result, env)
            THEN /\ Abort(transport_error(result), None)
                 /\ UNCHANGED <<response, sample_code>>
            ELSE /\ response' = [ok |-> result.ok, text |-> result.text]
                 /\ sample_code' = IF result.ok /\ result.text # <<>>
                                   THEN extract_sample_code_from_response(result.text)
                                   ELSE NoCode
                 /\ pc' = "done"
                 /\ UNCHANGED error
    /\ UNCHANGED <<output_dir, files, args, encoding, submit, i, common_taxon_id,
                   common_scientific_name, all_attributes, checklist_set, warnings,
                   common_attributes, final_checklist, mandatory_fields, lookupVars, virtual_sample,
                   fetched, fatal, prev>>

\* main, lines 223-240: the receipt is read, the accession extracted and
\* release.xml written
Release ==
    /\ pc = "release"
    /\ IF ~submission_response.exists
       THEN /\ Abort("receipt_missing", None)
            /\ fatal' = fatal \cup {"receipt_missing"}
            /\ UNCHANGED <<response, sample_code, files, written>>
       ELSE IF encode_failed(submission_response.text, encoding)
       THEN /\ Abort("decode", None)
            /\ UNCHANGED <<response, sample_code, files, written, fatal>>
       ELSE LET text == read_text(submission_response.text)
                code == extract_sample_code_from_response(text)
            IN  /\ response' = [ok |-> TRUE, text |-> text]
                /\ sample_code' = code
                /\ fatal' = IF code = NoCode THEN fatal \cup {"no_sample_code"} ELSE fatal
                /\ IF missing_sample_code(code)
                   THEN /\ Abort("no_sample_code", None)
                        /\ UNCHANGED <<files, written>>
                   ELSE /\ files' = files \cup {"release.xml"}
                        /\ written' = written \cup {"release.xml"}
                        /\ pc' = "release_submit"
                        /\ UNCHANGED error
    /\ UNCHANGED <<output_dir, submission_response, args, encoding, submit, i, common_taxon_id,
                   common_scientific_name, all_attributes, checklist_set, warnings,
                   common_attributes, final_checklist, mandatory_fields, lookupVars, virtual_sample,
                   fetched, transported, received, prev, receipts>>

ReleaseSubmit_forced ==
    /\ pc = "release_submit"
    /\ \E result \in CurlResults, env \in {e \in Environments : e.file = encoding} :
         /\ submit_to_ebi(create_release_xml(sample_code), "virtual_sample.xml",
                          submit /\ args.force, result, env)
         /\ IF raised(result, env)
            THEN Abort(transport_error(result), None)
            ELSE pc' = "done" /\ UNCHANGED error
    /\ UNCHANGED <<output_dir, files, args, encoding, localVars, fetched, fatal, prev>>

\* main, lines 242-244: the release request is submitted
ReleaseSubmit ==
    /\ pc = "release_submit"
    /\ \E result \in CurlResults, env \in {e \in Environments : e.file = encoding} :
         /\ submit_to_ebi(create_release_xml(sample_code), "virtual_sample.xml", submit, result, env)
         /\ IF raised(result, env)
            THEN Abort(transport_error(result), None)
            ELSE pc' = "done" /\ UNCHANGED error
    /\ UNCHANGED <<output_dir, files, args, encoding, localVars, fetched, fatal, prev>>

Next ==
    \/ Invoke
    \/ Start
    \/ Fetch
    \/ Reconcile
    \/ Lookup
    \/ Compose
    \/ Submit
    \/ Release
    \/ ReleaseSubmit

Spec == Init /\ [][Next]_vars

TypeOK ==
    /\ output_dir \in BOOLEAN
    /\ pc \in {"idle", "start", "fetch", "lookup", "compose", "submit", "release",
               "release_submit", "done", "aborted"}
    /\ i \in 0..Len(args.sample_codes)
    /\ Len(transported) = Len(received)

\* ----------------------------------------------------------------------
\* Specifications of the pure functions: the arguments are drawn in the
\* initial state and one action applies the function.
\* ----------------------------------------------------------------------
InitDir ==
    /\ output_dir = FALSE
    /\ submission_response = NoFile
    /\ files = {}

InitHistory ==
    /\ fetched = <<>>
    /\ fatal = {}
    /\ error = NoError
    /\ written = {}
    /\ transported = <<>>
    /\ received = <<>>
    /\ prev = NoPrev
    /\ receipts = NoReceipts

\* -- extract_sample_code_from_response ---------------------------------
Chunks ==
    { <<SUCCESS_OPEN, ERS, "1", QUOTE>>,
      <<SUCCESS_OPEN, ERS, "2", "1", QUOTE>>,
      <<ERROR_OPEN, ERS, "2", QUOTE>>,
      <<ERROR_OPEN, ERS, "1", "2", QUOTE>>,
      <<SUCCESS_OPEN, ERS, QUOTE>>,
      <<SUCCESS_OPEN, ERS, "1">>,
      <<ERROR_OPEN, ERS, "2", JUNK, QUOTE>>,
      <<ERROR_OPEN, "1", QUOTE>>,
      <<JUNK>> }

RECURSIVE concat(_)
concat(chunks) == IF chunks = <<>> THEN <<>> ELSE Head(chunks) \o concat(Tail(chunks))

Texts == {concat(cs) : cs \in SeqsUpTo(Chunks, MaxChunks)}

InitExtract ==
    /\ InitDir
    /\ InitHistory
    /\ pc = "extract"
    /\ args = NoArgs
    /\ encoding = "utf-8"
    /\ submit = FALSE
    /\ i = 0
    /\ common_taxon_id = None
    /\ common_scientific_name = None
    /\ all_attributes = <<>>
    /\ checklist_set = {}
    /\ warnings = <<>>
    /\ common_attributes = <<>>
    /\ final_checklist = None
    /\ checklist_xml = <<>>
    /\ mandatory_fields = <<>>
    /\ fields_with_units = <<>>
    /\ recommended_fields = <<>>
    /\ virtual_sample = NoRecord
    /\ response \in [ok : {TRUE}, text : Texts]
    /\ sample_code = NoCode

Extract ==
    /\ pc = "extract"
    /\ sample_code' = extract_sample_code_from_response(response.text)
    /\ pc' = "extracted"
    /\ UNCHANGED <<dirVars, args, encoding, submit, i, common_taxon_id, common_scientific_name,
                   all_attributes, checklist_set, warnings, common_attributes,
                   final_checklist, mandatory_fields, lookupVars, virtual_sample, response,
                   historyVars>>

NextExtract == Extract

SpecExtract == InitExtract /\ [][NextExtract]_vars

\* -- the common attributes ---------------------------------------------
AttributeTags == {"sex", "depth"}

AttributeValues == {"1", "2"}

AttributeUnits == {None, "m"}

RawAttributes == [tag : AttributeTags, value : AttributeValues, units : AttributeUnits]

AttributeSets == {parse_sample_attributes(raw) : raw \in SeqsUpTo(RawAttributes, MaxAttrs)}

InitReconcile ==
    /\ InitDir
    /\ InitHistory
    /\ pc = "reconcile"
    /\ args = NoArgs
    /\ encoding = "utf-8"
    /\ submit = FALSE
    /\ i = 0
    /\ common_taxon_id = None
    /\ common_scientific_name = None
    /\ all_attributes \in SeqsUpTo(AttributeSets, MaxSamples) \ {<<>>}
    /\ checklist_set = {}
    /\ warnings = <<>>
    /\ common_attributes = <<>>
    /\ final_checklist = None
    /\ checklist_xml = <<>>
    /\ mandatory_fields = <<>>
    /\ fields_with_units = <<>>
    /\ recommended_fields = <<>>
    /\ virtual_sample = NoRecord
    /\ response = NoResponse
    /\ sample_code = NoCode

FindCommon ==
    /\ pc = "reconcile"
    /\ common_attributes' = find_common_attributes(all_attributes)
    /\ pc' = "reconciled"
    /\ UNCHANGED <<dirVars, args, encoding, submit, i, common_taxon_id, common_scientific_name,
                   all_attributes, checklist_set, warnings, final_checklist,
                   mandatory_fields, lookupVars, virtual_sample, response, sample_code, historyVars>>

NextReconcile == FindCommon

SpecReconcile == InitReconcile /\ [][NextReconcile]_vars

\* -- create_virtual_sample ---------------------------------------------
ComposeTags == {CHECKLIST_TAG, "sex"}

ComposeValues == {"female", "ERC000053"}

ComposeRaw == [tag : ComposeTags, value : ComposeValues, units : AttributeUnits]

ComposeAttributeSets == {parse_sample_attributes(raw) : raw \in SeqsUpTo(ComposeRaw, MaxAttrs)}

FieldNames == {CHECKLIST_TAG, "sex", "collection date"}

ComposeArgs ==
    [sample_codes : SeqsUpTo({"ERS101", "ERS102"}, MaxSamples), submit : {FALSE},
     release : {FALSE}, checklist : {None}, alias : {None, "vs1"},
     center : {None, "CNAG"}, force : {FALSE}]

InitCompose ==
    /\ InitDir
    /\ InitHistory
    /\ pc = "create"
    /\ args \in ComposeArgs
    /\ encoding = "utf-8"
    /\ submit = FALSE
    /\ i = 0
    /\ common_taxon_id = "9606"
    /\ common_scientific_name = "Homo sapiens"
    /\ all_attributes = <<>>
    /\ checklist_set = {}
    /\ warnings = <<>>
    /\ common_attributes \in ComposeAttributeSets
    /\ final_checklist \in {None, "ERC000011", "ERC000053"}
    /\ checklist_xml = <<>>
    /\ mandatory_fields \in SeqsUpTo(FieldNames, MaxMandatory)
    /\ fields_with_units = <<>>
    /\ recommended_fields = <<>>
    /\ virtual_sample = NoRecord
    /\ response = NoResponse
    /\ sample_code = NoCode

Create_consuming ==
    /\ pc = "create"
    /\ virtual_sample' =
           create_virtual_sample(common_attributes, args.sample_codes, common_taxon_id,
                                 common_scientific_name,
                                 virtual_sample_alias(args.alias, args.sample_codes),
                                 args.center, final_checklist, mandatory_fields)
    /\ common_attributes' = SelectSeq(common_attributes, LAMBDA e : e.tag # CHECKLIST_TAG)
    /\ pc' = "created"
    /\ UNCHANGED <<dirVars, args, encoding, submit, i, common_taxon_id, common_scientific_name,
                   all_attributes, checklist_set, warnings,
                   final_checklist, mandatory_fields, lookupVars, response, sample_code, historyVars>>

Create ==
    /\ pc = "create"
    /\ virtual_sample' =
           create_virtual_sample(common_attributes, args.sample_codes, common_taxon_id,
                                 common_scientific_name,
                                 virtual_sample_alias(args.alias, args.sample_codes),
                                 args.center, final_checklist, mandatory_fields)
    /\ pc' = "created"
    /\ UNCHANGED <<dirVars, args, encoding, submit, i, common_taxon_id, common_scientific_name,
                   all_attributes, checklist_set, warnings, common_attributes,
                   final_checklist, mandatory_fields, lookupVars, response, sample_code, historyVars>>

NextCompose == Create

SpecCompose == InitCompose /\ [][NextCompose]_vars

\* -- find_common_attributes, then create_virtual_sample ------------------
RecordRaw ==
    {[tag |-> "sex", value |-> "1", units |-> None],
     [tag |-> "sex", value |-> "2", units |-> None],
     [tag |-> "depth", value |-> "1", units |-> "m"],
     [tag |-> CHECKLIST_TAG, value |-> "ERC000053", units |-> None]}

RecordAttributeSets ==
    {parse_sample_attributes(raw) : raw \in SeqsUpTo(RecordRaw, MaxAttrs + 1)}

RecordMandatory == {<<>>, <<"collection date">>, <<"sex", "collection date", "depth">>}

InitRecord ==
    /\ InitDir
    /\ InitHistory
    /\ pc = "reconcile"
    /\ \E codes \in SampleCodeLists :
          /\ args = [sample_codes |-> codes, submit |-> FALSE, release |-> FALSE,
                     checklist |-> None, alias |-> None, center |-> None, force |-> FALSE]
          /\ all_attributes \in [1..Len(codes) -> RecordAttributeSets]
    /\ encoding = "utf-8"
    /\ submit = FALSE
    /\ i = 0
    /\ common_taxon_id = "9606"
    /\ common_scientific_name = "Homo sapiens"
    /\ checklist_set = {}
    /\ warnings = <<>>
    /\ common_attributes = <<>>
    /\ final_checklist \in {None, DEFAULT_CHECKLIST}
    /\ checklist_xml = <<>>
    /\ mandatory_fields \in RecordMandatory
    /\ fields_with_units = <<>>
    /\ recommended_fields = <<>>
    /\ virtual_sample = NoRecord
    /\ response = NoResponse
    /\ sample_code = NoCode

CreateReconciled ==
    /\ pc = "reconciled"
    /\ virtual_sample' =
           create_virtual_sample(common_attributes, args.sample_codes, common_taxon_id,
                                 common_scientific_name,
                                 virtual_sample_alias(args.alias, args.sample_codes),
                                 args.center, final_checklist, mandatory_fields)
    /\ pc' = "created"
    /\ UNCHANGED <<dirVars, args, encoding, submit, i, common_taxon_id, common_scientific_name,
                   all_attributes, checklist_set, warnings, common_attributes,
                   final_checklist, mandatory_fields, lookupVars, response, sample_code, historyVars>>

NextRecord ==
    \/ FindCommon
    \/ CreateReconciled

SpecRecord == InitRecord /\ [][NextRecord]_vars

\* -- mandatory_fields_and_units ------------------------------------------
Markers == {"mandatory", "recommended", "optional"}

ChecklistFields ==
    {Field(name, marker, u[1], u[2]) :
        name \in {"sex", "depth"}, marker \in Markers,
        u \in {<<FALSE, None>>, <<TRUE, None>>, <<TRUE, "m">>}}

InitChecklist ==
    /\ InitDir
    /\ InitHistory
    /\ pc = "resolve"
    /\ args = NoArgs
    /\ encoding = "utf-8"
    /\ submit = FALSE
    /\ i = 0
    /\ common_taxon_id = None
    /\ common_scientific_name = None
    /\ all_attributes = <<>>
    /\ checklist_set = {}
    /\ warnings = <<>>
    /\ common_attributes = <<>>
    /\ final_checklist = DEFAULT_CHECKLIST
    /\ checklist_xml \in SeqsUpTo(ChecklistFields, MaxFields)
    /\ mandatory_fields = <<>>
    /\ fields_with_units = <<>>
    /\ recommended_fields = <<>>
    /\ virtual_sample = NoRecord
    /\ response = NoResponse
    /\ sample_code = NoCode

Resolve ==
    /\ pc = "resolve"
    /\ mandatory_fields' = mandatory_fields_and_units(checklist_xml).mandatory_fields
    /\ fields_with_units' = mandatory_fields_and_units(checklist_xml).fields_with_units
    /\ recommended_fields' = mandatory_fields_and_units(checklist_xml).recommended_fields
    /\ pc' = "resolved"
    /\ UNCHANGED <<dirVars, args, encoding, submit, i, common_taxon_id, common_scientific_name,
                   all_attributes, checklist_set, warnings, common_attributes,
                   final_checklist, checklist_xml, virtual_sample, response, sample_code,
                   historyVars>>

NextChecklist == Resolve

SpecChecklist == InitChecklist /\ [][NextChecklist]_vars

\* ----------------------------------------------------------------------
\* Properties
\* ----------------------------------------------------------------------
\* the pattern  open ERS digit^k "  occupies text[p .. p + k + 2]
ShapeAt(open, text, p, k) ==
    /\ k >= 1
    /\ p + k + 2 <= Len(text)
    /\ text[p] = open
    /\ text[p + 1] = ERS
    /\ \A j \in 1..k : text[p + 1 + j] \in Digits
    /\ text[p + k + 2] = QUOTE

ShapePositions(open, text) ==
    {p \in 1..Len(text) : \E k \in 1..Len(text) : ShapeAt(open, text, p, k)}

HasShape(open, text) == ShapePositions(open, text) # {}

\* the accession of the leftmost occurrence of the shape
FirstAccession(open, text) ==
    LET p == CHOOSE q \in ShapePositions(open, text) :
                 \A r \in ShapePositions(open, text) : q <= r
        k == CHOOSE n \in 1..Len(text) : ShapeAt(open, text, p, n)
    IN  SubSeq(text, p + 1, p + 1 + k)

HasAccession(text) == HasShape(SUCCESS_OPEN, text) \/ HasShape(ERROR_OPEN, text)

\* the checklist values the downloaded samples carry
ObservedChecklists ==
    {e.value : e \in {x \in UNION {Range(all_attributes[n]) : n \in 1..Len(all_attributes)} :
                          x.tag = CHECKLIST_TAG /\ Truthy(x.value)}}

NoOverride == ~Truthy(args.checklist)

\* a submit run that has downloaded every sample and left the loop
SelectionReached ==
    /\ ~args.release
    /\ args.sample_codes # <<>>
    /\ i = Len(args.sample_codes)
    /\ pc \in {"lookup", "compose", "submit", "done", "aborted"}

\* C1: after the common attributes are computed from a non-empty list of
\* attribute sets, the entries of common_attributes with a given tag are
\* exactly the entries (tag, value, units) that occur in every attribute
\* set: a tag is reconciled iff every sample has it with one identical
\* (value, units) pair, and the reconciled entry carries that pair.
C1_Intersective ==
    pc = "reconciled" =>
        /\ \A e \in Range(common_attributes) : e.tag \in AttributeTags
        /\ \A t \in AttributeTags :
             {e \in Range(common_attributes) : e.tag = t}
               = {e \in [tag : {t}, value : AttributeValues, units : AttributeUnits] :
                    \A n \in 1..Len(all_attributes) : e \in Range(all_attributes[n])}

\* two samples or more; one tag is kept, another one is in every sample
\* with the same value but not the same units and is dropped
C1_Witness ==
    /\ pc = "reconciled"
    /\ Len(all_attributes) >= 2
    /\ Has(common_attributes, "sex")
    /\ ~Has(common_attributes, "depth")
    /\ \A n \in 1..Len(all_attributes) :
         /\ Has(all_attributes[n], "depth")
         /\ Get(all_attributes[n], "depth")[1] = Get(all_attributes[1], "depth")[1]

\* C2: once the samples are downloaded, the run goes on with the final
\* checklist of the three-way policy: the override when one is given; else
\* the single observed value; else (no or several observed values) the
\* default checklist with a warning, and the run does not abort on it.
C2_Original ==
    SelectionReached =>
        /\ error.kind # "inconsistent_checklists"
        /\ ~NoOverride => final_checklist = args.checklist
        /\ (NoOverride /\ Cardinality(ObservedChecklists) = 1)
             => final_checklist \in ObservedChecklists
        /\ (NoOverride /\ Cardinality(ObservedChecklists) # 1)
             => (final_checklist = DEFAULT_CHECKLIST /\ warnings # <<>>)

\* the downloaded samples do not all have one taxon id and scientific name
TaxonomyDiffers == \E j, k \in 1..Len(fetched) : fetched[j] # fetched[k]

\* C3: in a submit run whose samples do not all share the taxon identifier
\* and the scientific name, no record is composed and virtual_sample.xml
\* is not written.
C3_Original ==
    (~args.release /\ TaxonomyDiffers) =>
        (virtual_sample = NoRecord /\ "virtual_sample.xml" \notin written)

DiffersFromFirst(k) == fetched[k] # fetched[1]

\* C4: the taxonomy check fails iff some downloaded sample differs from the
\* first sample in taxon id or scientific name, and the error names the
\* earliest such sample, also when the first sample's values are empty.
C4_Original ==
    ~args.release =>
        /\ (\E k \in 1..Len(fetched) : DiffersFromFirst(k))
             <=> error.kind \in {"taxon_id", "scientific_name"}
        /\ error.kind \in {"taxon_id", "scientific_name"} =>
             \E k \in 1..Len(fetched) :
                /\ DiffersFromFirst(k)
                /\ \A j \in 1..(k - 1) : ~DiffersFromFirst(j)
                /\ error.sample = args.sample_codes[k]

EmittedWith(tag, value) ==
    \E n \in 1..Len(virtual_sample.attributes) :
        /\ virtual_sample.attributes[n].tag = tag
        /\ virtual_sample.attributes[n].value = value

\* C5 as stated: every mandatory field that is not a reconciled tag is
\* emitted with the sentinel; every mandatory field that is a reconciled
\* tag is emitted with its reconciled value and without a sentinel entry.
C5_Original ==
    pc = "created" =>
        \A f \in Range(mandatory_fields) :
            IF ~Has(common_attributes, f)
            THEN EmittedWith(f, SENTINEL)
            ELSE /\ EmittedWith(f, Get(common_attributes, f)[1])
                 /\ ~EmittedWith(f, SENTINEL)

\* C5 (amended): every mandatory field that is not a reconciled tag is
\* emitted with the sentinel; every mandatory field that is a reconciled
\* tag gets no sentinel entry, and is emitted with its reconciled value
\* unless it is the reserved tag ENA-CHECKLIST, whose reconciled value is
\* not emitted: the only entries with the reserved tag then carry the
\* checklist argument, and there is one iff that argument is set.
C5_Completion ==
    pc = "created" =>
        \A f \in Range(mandatory_fields) :
            IF ~Has(common_attributes, f)
            THEN EmittedWith(f, SENTINEL)
            ELSE /\ ~EmittedWith(f, SENTINEL)
                 /\ f # CHECKLIST_TAG => EmittedWith(f, Get(common_attributes, f)[1])
                 /\ f = CHECKLIST_TAG =>
                      /\ \A n \in 1..Len(virtual_sample.attributes) :
                            virtual_sample.attributes[n].tag = f
                              => virtual_sample.attributes[n].value = final_checklist
                      /\ Truthy(final_checklist) <=> EmittedWith(f, final_checklist)

\* a mandatory field that is reconciled and kept, one that is missing and
\* filled in, and the reserved tag both mandatory and reconciled with a
\* value other than the checklist argument
C5_Witness ==
    /\ pc = "created"
    /\ \E f \in Range(mandatory_fields) : ~Has(common_attributes, f)
    /\ \E f \in Range(mandatory_fields) :
          /\ f = CHECKLIST_TAG
          /\ Has(common_attributes, f)
          /\ Get(common_attributes, f)[1] # final_checklist
    /\ Has(common_attributes, "sex")
    /\ EmittedWith("sex", Get(common_attributes, "sex")[1])

\* C6: the result is the accession of the leftmost success-shaped match
\* when the text has one, wherever an error-shaped match may be; else the
\* accession of the leftmost error-shaped match when it has one; else None.
C6_Precedence ==
    pc = "extracted" =>
        sample_code =
            IF HasShape(SUCCESS_OPEN, response.text)
            THEN FirstAccession(SUCCESS_OPEN, response.text)
            ELSE IF HasShape(ERROR_OPEN, response.text)
            THEN FirstAccession(ERROR_OPEN, response.text)
            ELSE NoCode

\* an error-shaped match comes before a success-shaped match with another
\* accession, and the success one is returned
C6_Witness ==
    /\ pc = "extracted"
    /\ HasShape(SUCCESS_OPEN, response.text)
    /\ HasShape(ERROR_OPEN, response.text)
    /\ \A p \in ShapePositions(SUCCESS_OPEN, response.text) :
         \E q \in ShapePositions(ERROR_OPEN, response.text) : q < p
    /\ FirstAccession(ERROR_OPEN, response.text) # FirstAccession(SUCCESS_OPEN, response.text)
    /\ sample_code = FirstAccession(SUCCESS_OPEN, response.text)

\* C7: in a release run, when the receipt holds no accession the run is
\* aborted and nothing is transported; a transported release request
\* targets the accession found in the receipt that this run has read.
C7_ReleaseNeedsAccession ==
    args.release =>
        /\ (pc \in {"release_submit", "done", "aborted"} /\ ~HasAccession(response.text))
             => (pc = "aborted" /\ transported = <<>>)
        /\ transported # <<>> =>
             /\ response.ok
             /\ HasAccession(response.text)
             /\ sample_code # NoCode
             /\ \A n \in 1..Len(transported) :
                   transported[n].submission = create_release_xml(sample_code)

\* a release run that read a receipt without accession and was aborted
C7_Witness ==
    /\ args.release
    /\ pc = "aborted"
    /\ error.kind = "no_sample_code"
    /\ response.ok
    /\ response.text # <<>>
    /\ transported = <<>>

\* a warning is due: no override and no or several observed checklists
Warned ==
    warnings # <<>> \/ (NoOverride /\ Cardinality(ObservedChecklists) # 1)

\* C8 as stated: a submit run requested as production whose samples carry
\* no or several checklist values, without an override, is not aborted on
\* that account: the warning is raised and the run goes on; every
\* transport of a submit run
\* goes to the test endpoint when a warning is due and force is not set,
\* and to the requested endpoint otherwise.
C8_Original ==
    ~args.release =>
        /\ (SelectionReached /\ args.submit /\ NoOverride
              /\ Cardinality(ObservedChecklists) # 1) =>
              (warnings # <<>> /\ error.kind # "inconsistent_checklists")
        /\ \A n \in 1..Len(transported) :
              transported[n].production =
                  IF Warned /\ ~args.force THEN FALSE ELSE args.submit

\* a fatal condition has occurred in the run, as the data the run was
\* given tell: a download that failed or gave an unusable document,
\* samples that do not all have one taxon id and scientific name, a
\* checklist lookup that failed, a receipt read without an accession in it
FatalOccurred ==
    \/ "download" \in fatal
    \/ (~args.release /\ TaxonomyDiffers)
    \/ "checklist_lookup" \in fatal
    \/ (args.release /\ response.ok /\ ~HasAccession(response.text))

\* C9 as stated: in a run in which a fatal condition occurs nothing is
\* transported.
C9_Original == FatalOccurred => transported = <<>>

\* the run repeats the arguments of the completed run just before it
Replay == prev.valid /\ prev.args = args

\* C10 as stated, for the case it spells out: a release run that repeats a
\* completed release run on the same output directory (the credentials in
\* place, the receipt readable under the locale) extracts the accession
\* that run extracted and transports the request that run transported.
C10_Original ==
    (Replay /\ args.release /\ pc \in {"done", "aborted"}
       /\ error.kind # "credentials"
       /\ ~(error.kind = "decode" /\ transported = <<>>)) =>
        /\ sample_code = prev.sample_code
        /\ transported = prev.transported

\* a release run has just read the receipt and has not transported yet
ReceiptJustRead ==
    /\ args.release
    /\ response.ok
    /\ transported = <<>>
    /\ pc \in {"release_submit", "aborted"}

\* C11 as stated: the receipt a release run reads is the text the transport
\* of the submit phase on the directory returned.
C11_Original ==
    ReceiptJustRead => (receipts.submit.ok /\ response.text = receipts.submit.text)

\* the sample identifiers a title enumerates: the tokens between the fixed
\* prefix and the final ".", separated by ", "
TitleCodes(title) == [k \in 1..((Len(title) - 1) \div 2) |-> title[2 * k]]

TitleWellFormed(title) ==
    /\ Len(title) >= 2
    /\ title[1] = TITLE_PREFIX
    /\ title[Len(title)] = "."
    /\ \A k \in 1..((Len(title) - 1) \div 2) :
          2 * k + 1 < Len(title) => title[2 * k + 1] = ", "
    /\ Len(title) = IF Len(title) = 2 THEN 2 ELSE 2 * ((Len(title) - 1) \div 2) + 1

\* C12: the title of the composed record, read back, enumerates exactly the
\* sample codes passed in, in their order, repetitions included.
C12_Provenance ==
    pc = "created" =>
        /\ TitleWellFormed(virtual_sample.title)
        /\ TitleCodes(virtual_sample.title) = args.sample_codes

\* a record composed from a sample code given twice
C12_Witness ==
    /\ pc = "created"
    /\ Len(args.sample_codes) >= 2
    /\ args.sample_codes[1] = args.sample_codes[2]
    /\ TitleCodes(virtual_sample.title) = args.sample_codes

\* C14: when the checklist argument is set, the first emitted attribute is
\* ENA-CHECKLIST with the checklist argument as value; no later entry with
\* the reserved tag comes from the reconciled attributes (the only one
\* possible is a placeholder for a mandatory field of that name which the
\* reconciled attributes lack).
C14_ChecklistFirst ==
    (pc = "created" /\ Truthy(final_checklist)) =>
        LET attributes == virtual_sample.attributes
        IN  /\ attributes # <<>>
            /\ attributes[1] = Attribute(CHECKLIST_TAG, final_checklist, None)
            /\ \A n \in 2..Len(attributes) :
                  attributes[n].tag = CHECKLIST_TAG =>
                      /\ attributes[n].value = SENTINEL
                      /\ ~Has(common_attributes, CHECKLIST_TAG)
                      /\ CHECKLIST_TAG \in Range(mandatory_fields)

\* a record composed with a checklist set from reconciled attributes that
\* carry another ENA-CHECKLIST value and an ordinary attribute
C14_Witness ==
    /\ pc = "created"
    /\ Truthy(final_checklist)
    /\ Has(common_attributes, CHECKLIST_TAG)
    /\ Get(common_attributes, CHECKLIST_TAG)[1] # final_checklist
    /\ Has(common_attributes, "sex")
    /\ Len(virtual_sample.attributes) = 2

\* C19: the step that calls create_virtual_sample changes nothing but the
\* record it returns: the reconciled attributes, the mandatory fields and
\* the sample codes are unchanged, no file is written and nothing is
\* transported.
C19_NoSideEffects ==
    [][(pc = "create" /\ pc' = "created") =>
          /\ common_attributes' = common_attributes
          /\ mandatory_fields' = mandatory_fields
          /\ args' = args
          /\ dirVars' = dirVars
          /\ written' = written
          /\ transported' = transported
          /\ received' = received]_vars

\* a record has been composed from non-empty reconciled attributes that
\* hold the reserved tag, a non-empty mandatory list and two sample codes,
\* and nothing is on disk or on the wire
C19_Witness ==
    /\ pc = "created"
    /\ virtual_sample # NoRecord
    /\ Has(common_attributes, CHECKLIST_TAG)
    /\ mandatory_fields # <<>>
    /\ Len(args.sample_codes) = 2
    /\ written = {}
    /\ transported = <<>>

\* the number of emitted attributes with the given tag
Occurrences(tag) ==
    Cardinality({n \in 1..Len(virtual_sample.attributes) :
                    virtual_sample.attributes[n].tag = tag})

\* C20 as stated: each tag occurs at most once in the emitted attributes.
C20_Original ==
    pc = "created" =>
        \A n \in 1..Len(virtual_sample.attributes) :
            Occurrences(virtual_sample.attributes[n].tag) <= 1

\* C16 as stated: a run transports at most once; a run that completed has
\* transported exactly one request and received one result, the submission
\* in the submit phase and the release of the extracted accession in the
\* release phase; a run that aborted has transported nothing.
C16_Original ==
    /\ Len(transported) <= 1
    /\ Len(received) = Len(transported)
    /\ pc = "aborted" => transported = <<>>
    /\ pc = "done" =>
          /\ Len(transported) = 1
          /\ transported[1].submission =
                IF args.release THEN create_release_xml(sample_code)
                ELSE create_submission_xml

\* the accession a text declares: of the leftmost success-shaped match when
\* there is one, else of the leftmost error-shaped match
DeclaredAccession(text) ==
    IF HasShape(SUCCESS_OPEN, text) THEN FirstAccession(SUCCESS_OPEN, text)
    ELSE FirstAccession(ERROR_OPEN, text)

\* C17: whenever a release run transports a request, a submit transport
\* on the directory has returned a response before, the receipt on disk is
\* the latest returned response and declares an accession, and the request
\* is a release whose target is the accession extracted from the receipt
\* as it is on disk at that moment.
C17_Workflow ==
    [][(args.release /\ Len(transported') > Len(transported)) =>
          /\ receipts.submit.ok
          /\ submission_response.exists
          /\ submission_response.text = receipts.latest.text
          /\ HasAccession(submission_response.text)
          /\ transported'[Len(transported')].submission.actions = <<"MODIFY", "RELEASE">>
          /\ transported'[Len(transported')].submission.target
                = DeclaredAccession(submission_response.text)
          /\ transported'[Len(transported')].submission.target
                = extract_sample_code_from_response(submission_response.text)]_vars

\* a release run has transported its request and got a response, after a
\* submit transport had returned one
C17_Witness ==
    /\ pc = "done"
    /\ args.release
    /\ Len(transported) = 1
    /\ received[1].ok
    /\ receipts.submit.ok
    /\ HasAccession(receipts.submit.text)
    /\ transported[1].submission.target # NoCode

\* the positions of the checklist's fields that carry the marker
Marked(marker) == {k \in 1..Len(checklist_xml) : checklist_xml[k].mandatory = marker}

\* the list holds the names of the fields carrying the marker, one entry
\* per such field, in the order of the checklist
ListsMarked(list, marker) ==
    /\ Len(list) = Cardinality(Marked(marker))
    /\ \A j \in 1..Len(list) :
          \E k \in Marked(marker) :
              /\ Cardinality({m \in Marked(marker) : m <= k}) = j
              /\ list[j] = checklist_xml[k].name

\* the positions of the fields of that name that declare units
Declaring(name) ==
    {k \in 1..Len(checklist_xml) :
        checklist_xml[k].name = name /\ checklist_xml[k].has_units}

\* C18: the mandatory list is the names of the fields whose marker is
\* "mandatory", the recommended list the names of those whose marker is
\* "recommended", both in checklist order, so a field with another marker
\* is in neither; a name has an entry in the units mapping iff a field of
\* that name declares units, and the entry is the unit of the last such
\* field (None when the declaration names no unit).
C18_Classification ==
    pc = "resolved" =>
        /\ ListsMarked(mandatory_fields, "mandatory")
        /\ ListsMarked(recommended_fields, "recommended")
        /\ \A name \in {checklist_xml[k].name : k \in 1..Len(checklist_xml)}
                     \cup Tags(fields_with_units) :
              /\ Has(fields_with_units, name) <=> Declaring(name) # {}
              /\ Has(fields_with_units, name) =>
                    \E k \in Declaring(name) :
                        /\ \A m \in Declaring(name) : m <= k
                        /\ Get(fields_with_units, name) = <<checklist_xml[k].unit, None>>

\* a checklist with an optional field that declares units and a mandatory
\* field that declares none has been resolved
C18_Witness ==
    /\ pc = "resolved"
    /\ \E k \in 1..Len(checklist_xml) :
          /\ checklist_xml[k].mandatory = "optional"
          /\ checklist_xml[k].has_units
          /\ Has(fields_with_units, checklist_xml[k].name)
    /\ \E k \in 1..Len(checklist_xml) :
          /\ checklist_xml[k].mandatory = "mandatory"
          /\ ~checklist_xml[k].has_units
          /\ ~Has(fields_with_units, checklist_xml[k].name)
    /\ Len(mandatory_fields) = 1
    /\ recommended_fields = <<>>

\* the positions of the first sample's attributes that are ordinary (not
\* the reserved tag) and present with the same value and units in every
\* sample
Kept ==
    {k \in 1..Len(all_attributes[1]) :
        /\ all_attributes[1][k].tag # CHECKLIST_TAG
        /\ \A n \in 1..Len(all_attributes) :
              \E j \in 1..Len(all_attributes[n]) :
                  all_attributes[n][j] = all_attributes[1][k]}

\* C15: after the checklist attribute (if any) the record holds one
\* attribute for each ordinary attribute of the first sample that every
\* sample has with the same value and units, in the first sample's order,
\* with that value and with its units when it has some; every entry after
\* those is a placeholder for a mandatory field that is not reconciled.
C15_Order ==
    pc = "created" =>
        LET attributes == virtual_sample.attributes
            first == all_attributes[1]
            off == IF Truthy(final_checklist) THEN 1 ELSE 0
            nk == Cardinality(Kept)
        IN  /\ Len(attributes) >= off + nk
            /\ \A j \in 1..nk :
                  \E k \in Kept :
                      /\ Cardinality({m \in Kept : m <= k}) = j
                      /\ attributes[off + j] =
                            Attribute(first[k].tag, first[k].value,
                                      IF Truthy(first[k].units) THEN first[k].units ELSE None)
            /\ \A n \in (off + nk + 1)..Len(attributes) :
                  /\ attributes[n].value = SENTINEL
                  /\ attributes[n].units = None
                  /\ attributes[n].tag \in Range(mandatory_fields)
                  /\ ~Has(common_attributes, attributes[n].tag)

\* a record composed from two samples that list the same three attributes
\* in different orders, the reserved tag between two ordinary ones in the
\* first, with a placeholder after the reconciled attributes
C15_Witness ==
    /\ pc = "created"
    /\ Len(all_attributes) >= 2
    /\ Len(common_attributes) = 3
    /\ common_attributes[2].tag = CHECKLIST_TAG
    /\ all_attributes[2][1].tag # all_attributes[1][1].tag
    /\ Truthy(final_checklist)
    /\ Len(virtual_sample.attributes) = 4
    /\ virtual_sample.attributes[4].value = SENTINEL

\* a step of a submit run that is past its start
SubmitRunStep == ~args.release /\ pc \notin {"idle", "done", "aborted"}

\* C21: a submit run that finds the output directory aborts at once, with
\* nothing fetched, written or transported and the directory as it was; a
\* step of a submit run never writes a file that is already there; and a
\* receipt on disk changes only in the transport step of a release run.
C21_NoOverwrite ==
    [][/\ (SubmitRunStep /\ pc = "start" /\ output_dir) =>
             /\ pc' = "aborted"
             /\ fetched' = <<>>
             /\ written' = {}
             /\ transported' = <<>>
             /\ dirVars' = dirVars
       /\ SubmitRunStep =>
             \A f \in written' \ written :
                 /\ f \notin files
                 /\ f = "submission_response.xml" => ~submission_response.exists
       /\ (submission_response.exists /\ submission_response' # submission_response) =>
             (args.release /\ pc = "release_submit")]_vars

\* a submit run aborted on a directory that holds an earlier run's record
\* and receipt, which are still there
C21_Witness ==
    /\ ~args.release
    /\ pc = "aborted"
    /\ error.kind = "output_dir_exists"
    /\ submission_response.exists
    /\ submission_response.text = receipts.latest.text
    /\ "virtual_sample.xml" \in files
    /\ written = {}
    /\ fetched = <<>>
    /\ transported = <<>>

\* C22: every request a release run transports goes to production iff the
\* submit flag of that run is set, and is the release of the accession read
\* from the receipt, whatever the force flag and whatever endpoint the run
\* before it used.
C22_ReleaseEnvironment ==
    args.release =>
        /\ submit = args.submit
        /\ warnings = <<>>
        /\ \A n \in 1..Len(transported) :
              /\ transported[n].production = args.submit
              /\ transported[n].submission = create_release_xml(sample_code)

\* a release to production without the force flag, right after a submit
\* run that asked for production and was downgraded to the test endpoint
C22_Witness ==
    /\ args.release
    /\ args.submit
    /\ ~args.force
    /\ pc = "done"
    /\ Len(transported) = 1
    /\ transported[1].production
    /\ prev.valid
    /\ ~prev.args.release
    /\ prev.args.submit
    /\ Len(prev.transported) = 1
    /\ ~prev.transported[1].production

\* the samples downloaded so far that carry a non-empty checklist value
Carriers ==
    {n \in 1..Len(all_attributes) :
        \E k \in 1..Len(all_attributes[n]) :
            /\ all_attributes[n][k].tag = CHECKLIST_TAG
            /\ Truthy(all_attributes[n][k].value)}

\* C23: while the samples are downloaded the collected set holds exactly
\* the non-empty checklist values of the samples seen, so a sample without
\* the tag or with an empty one adds nothing.  Without an override, once
\* the selection is made: when every sample that carries a value carries
\* the same value X and at least one does, the final checklist is X and
\* there is no warning; the default with its warning is chosen exactly
\* when no sample carries a value.
C23_AbsentContributesNothing ==
    /\ (~args.release /\ pc = "fetch") =>
          checklist_set = {Get(all_attributes[n], CHECKLIST_TAG)[1] : n \in Carriers}
    /\ (NoOverride /\ SelectionReached) =>
        /\ \A x \in ObservedChecklists :
              ObservedChecklists = {x} => (final_checklist = x /\ warnings = <<>>)
        /\ warnings # <<>> <=> Carriers = {}
        /\ Carriers = {} => (final_checklist = DEFAULT_CHECKLIST /\ warnings = <<WARNING_TEXT>>)

\* the selection was made for a sample with a checklist value and a
\* sample without the tag
C23_Witness ==
    /\ NoOverride
    /\ SelectionReached
    /\ Len(all_attributes) >= 2
    /\ Carriers # {}
    /\ \E n \in 1..Len(all_attributes) : ~Has(all_attributes[n], CHECKLIST_TAG)
    /\ final_checklist = "ERC000053"
    /\ warnings = <<>>

====
